---- MODULE Spec2Model ----
(***************************************************************************)
(* Model of model_interpretability/dropout_feature_ranking:                *)
(*   test_mask.py        train, predict, preprocess_data, get_features,    *)
(*                       test_topk (the top-k evaluation harness)          *)
(*   concrete_dropout.py ConcreteDropout, ConcreteRegularizer, Annealer    *)
(*                                                                         *)
(* The specifications share the variables:                                 *)
(*   SpecTrain       one call of train()                                   *)
(*   SpecTrainRaising  the same, with epochs that raise on NaN predictions *)
(*   SpecAnnealer    an Annealer wrapped around an optimizer               *)
(*   SpecFeatures    one call of get_features()                            *)
(*   SpecPreprocess  one call of preprocess_data()                         *)
(*   SpecHarness     one run of test_topk() over a cache directory         *)
(*   SpecRace        two runs of test_topk() on one cache key              *)
(*   SpecCycles      the train/evaluate cycles of test_topk()              *)
(*   SpecDropout     one forward pass of ConcreteDropout                   *)
(*   SpecRegularizer ConcreteRegularizers applied to one mask              *)
(***************************************************************************)
EXTENDS Integers, Sequences, FiniteSets, TLC

\* Harness invocations (operating-system processes running test_topk).
Procs == {1, 2}

\* ------------------------------------------------------------------------
\* Bounds of the model
\* ------------------------------------------------------------------------
\* validation losses are drawn from 0..MaxLoss
MaxLoss == 2
\* patience is drawn from 1..MaxPatience
MaxPatience == 2
\* the warm-up count n is drawn from 1..MaxWarmup and the default
MaxWarmup == 3
\* step() is called up to n + ExtraCalls times
ExtraCalls == 3
\* the optimizer has 1..MaxGroups parameter groups
MaxGroups == 2
\* the data set has the features 1..NumFeatures
NumFeatures == 3
\* importance values are drawn from 0..MaxVal
MaxVal == 1
\* an explicit epoch budget num_epochs is drawn from 1..MaxBudget
MaxBudget == 3
\* num_iterations is drawn from 1..MaxIterations
MaxIterations == 2
\* a dropout layer has 1..MaxShape elements
MaxShape == 2

VARIABLES
    pc,                 \* pc[p]: position of invocation p
    \* ---- train() ----
    patience,           \* argument patience
    num_epochs,         \* argument num_epochs; 0 stands for None (falsy)
    model_path,         \* argument model_path: i of model_{i}.pickle
    epoch,              \* number of epochs processed so far in this call
    patience_counter,   \* local patience_counter
    best_loss,          \* local best_loss
    val_hist,           \* history: val_loss of every epoch processed in this call
    loaded,             \* what torch.load(model_path) returned at line 83
    ckpt,               \* file system: ckpt[i] = content of model_{i}.pickle
    \* ---- Annealer and the optimizer it wraps ----
    an_state,           \* "absent" before Annealer.__init__, "built" after
    ann_n,              \* argument n
    max_rate,           \* self.max_rate
    stepsize,           \* self.stepsize
    current_lr,         \* self.current_lr
    param_groups,       \* optimizer.param_groups: the 'lr' of every group
    created_lr,         \* history: the 'lr' the optimizer created its groups with
    written,            \* history: the rate each call of step() wrote
    \* ---- test_topk(): arguments ----
    random_k,           \* argument random_k
    masking_features,   \* argument masking_features
    k,                  \* argument k
    \* ---- the cache directory (shared by all invocations) ----
    raw_idx,            \* the feature -> column index the raw data determines
    dirs,               \* the directories that exist
    importance,         \* data/<mask>/importance_dict.csv
    base,               \* data/<mask>/physio_*: the base artifacts, by file name
    arr,                \* data/<mask>/top_k/<method>/physio_*, by file name
    \* ---- test_topk() and preprocess_data(): locals of invocation p ----
    file_i,             \* position in the file loop of line 184
    pp_i,               \* position in the file loops of lines 107 and 118
    features,           \* features (None in random-selection mode)
    org_input,          \* org_input
    org_outcomes,       \* org_outcomes
    org_dict,           \* org_dict
    X,                  \* X
    Y,                  \* Y
    calls,              \* history: the collaborators invocation p has called
    \* ---- test_topk(): the train/evaluate cycles of invocation p ----
    num_iterations,     \* argument num_iterations
    cycle_i,            \* i of line 198
    all_rocs,           \* all_rocs, each AUC with the model it was computed on
    reported,           \* pred_roc_mean and pred_roc_std
    \* ---- ConcreteDropout ----
    cd_state,           \* "absent", "built", "assertion_error" or "called"
    init_values,        \* the argument init_values of __init__
    input_shape,        \* self.input_shape: a tuple of dimensions
    parameter_mask,     \* self.parameter_mask: a tensor, in thousandths
    t,                  \* self.t, in thousandths
    training,           \* self.training
    input,              \* the argument of forward()
    uniform_distribution, \* the noise forward() drew, in units of 2^-28
    mask,               \* the mask forward() computed
    returned,           \* what forward() returned
    \* ---- ConcreteRegularizer ----
    reg_mask,           \* the argument mask of forward(), in units of 2^-28
    sum_order,          \* the order in which this build's torch.sum adds
    lam,                \* self.lam: a float, in units of 2^-10
    penalties           \* history: what forward() returned, by lam

trainVars == <<patience, num_epochs, model_path, epoch, patience_counter,
               best_loss, val_hist, loaded, ckpt>>

annVars == <<an_state, ann_n, max_rate, stepsize, current_lr, param_groups,
             created_lr, written>>

argVars == <<random_k, masking_features, k>>

cacheVars == <<raw_idx, dirs, importance, base, arr>>

localVars == <<file_i, pp_i, features, org_input, org_outcomes, org_dict, X, Y,
               calls>>

harnessVars == <<argVars, cacheVars, localVars>>

cycleVars == <<num_iterations, cycle_i, all_rocs, reported>>

dropVars == <<cd_state, init_values, input_shape, parameter_mask, t, training, input,
              uniform_distribution, mask, returned>>

regVars == <<reg_mask, sum_order, lam, penalties>>

vars == <<pc, trainVars, annVars, harnessVars, cycleVars, dropVars, regVars>>

\* what the operations of one component leave alone
exceptTrain == <<annVars, harnessVars, cycleVars, dropVars, regVars>>
exceptAnnealer == <<pc, trainVars, harnessVars, cycleVars, dropVars, regVars>>
exceptHarness == <<trainVars, annVars, cycleVars, dropVars, regVars>>
exceptCycles == <<annVars, argVars, cacheVars, dropVars, regVars>>
exceptDropout == <<pc, trainVars, annVars, harnessVars, cycleVars, regVars>>
exceptRegularizer == <<pc, trainVars, annVars, harnessVars, cycleVars, dropVars>>

\* ------------------------------------------------------------------------
\* IEEE-754 binary64 (Python float), non-negative values
\* ------------------------------------------------------------------------
\* A natural number is its binary digits, most significant first, without
\* leading zeros (<<>> is 0).  A float is [m, e] with value m * 2^e, where m
\* has exactly Precision digits, the first of them 1; zero is [<<>>, 0].
\* Every operation rounds its exact result to nearest, ties to even.
\* Exponent range and subnormals are left out: the rates stay far from both.
Precision == 53

\* guard digits of a quotient beyond the dividend's
DivExtra == 64

Smaller(i, j) == IF i < j THEN i ELSE j

Zeros(len) == [i \in 1..len |-> 0]

Strip(b) ==
    LET ones == {i \in 1..Len(b) : b[i] = 1}
    IN  IF ones = {} THEN <<>>
        ELSE SubSeq(b, CHOOSE i \in ones : \A j \in ones : i <= j, Len(b))

RECURSIVE BitsOfNat(_)
BitsOfNat(n) == IF n = 0 THEN <<>> ELSE Append(BitsOfNat(n \div 2), n % 2)

PadTo(b, len) == Zeros(len - Len(b)) \o b

\* the carry into digit i of a + b, digit strings of one length: some lower
\* digit generates a carry and every digit between passes it on
CarryInto(a, b, i) ==
    \E j \in (i + 1)..Len(a) :
        /\ a[j] + b[j] = 2
        /\ \A d \in (i + 1)..(j - 1) : a[d] + b[d] = 1

BigAdd(a, b) ==
    LET len == IF Len(a) > Len(b) THEN Len(a) ELSE Len(b)
        x == PadTo(a, len)
        y == PadTo(b, len)
        carry == [i \in 0..len |-> IF CarryInto(x, y, i) THEN 1 ELSE 0]
        sum == [i \in 1..len |-> (x[i] + y[i] + carry[i]) % 2]
    IN  IF carry[0] = 1 THEN <<1>> \o sum ELSE sum

BigLess(a, b) ==
    \/ Len(a) < Len(b)
    \/ /\ Len(a) = Len(b)
       /\ \E i \in 1..Len(a) :
              /\ a[i] < b[i]
              /\ \A j \in 1..(i - 1) : a[j] = b[j]

\* long division of a digit string of length >= 1 by a small positive
\* integer n, entered with remainder r: the quotient's digits (of the same
\* length) and the remainder left; halves are divided left one first
RECURSIVE DivBits(_, _, _)
DivBits(a, n, r) ==
    IF Len(a) = 1
    THEN [q |-> <<(2 * r + a[1]) \div n>>, r |-> (2 * r + a[1]) % n]
    ELSE LET h == Len(a) \div 2
             hi == DivBits(SubSeq(a, 1, h), n, r)
             lo == DivBits(SubSeq(a, h + 1, Len(a)), n, hi.r)
         IN  [q |-> hi.q \o lo.q, r |-> lo.r]

FZero == [m |-> <<>>, e |-> 0]

\* the float nearest to b * 2^e (+ a positive fraction of 2^e when sticky)
Round(b, e, sticky) ==
    IF b = <<>> THEN FZero
    ELSE IF Len(b) <= Precision
    THEN [m |-> b \o Zeros(Precision - Len(b)), e |-> e - (Precision - Len(b))]
    ELSE LET top == SubSeq(b, 1, Precision)
             guard == b[Precision + 1]
             rest == SubSeq(b, Precision + 2, Len(b))
             st == sticky \/ (\E i \in 1..Len(rest) : rest[i] = 1)
             up == guard = 1 /\ (st \/ top[Precision] = 1)
             m1 == IF up THEN BigAdd(top, <<1>>) ELSE top
             drop == Len(b) - Precision
         IN  IF Len(m1) > Precision
             THEN [m |-> SubSeq(m1, 1, Precision), e |-> e + drop + 1]
             ELSE [m |-> m1, e |-> e + drop]

\* the digits of x and y over their common (smaller) exponent
Aligned(x, y) ==
    LET em == IF x.e < y.e THEN x.e ELSE y.e
    IN  [a |-> IF x.m = <<>> THEN <<>> ELSE x.m \o Zeros(x.e - em),
         b |-> IF y.m = <<>> THEN <<>> ELSE y.m \o Zeros(y.e - em),
         e |-> em]

\* x + y
FAdd(x, y) ==
    IF x.m = <<>> THEN y
    ELSE IF y.m = <<>> THEN x
    ELSE LET al == Aligned(x, y) IN Round(BigAdd(al.a, al.b), al.e, FALSE)

\* x < y
FLess(x, y) ==
    IF y.m = <<>> THEN FALSE
    ELSE IF x.m = <<>> THEN TRUE
    ELSE LET al == Aligned(x, y) IN BigLess(al.a, al.b)

FLeq(x, y) == x = y \/ FLess(x, y)

\* x / n for an integer n >= 1
FDivNat(x, n) ==
    IF x.m = <<>> THEN FZero
    ELSE LET d == DivBits(x.m \o Zeros(DivExtra), n, 0)
         IN  Round(Strip(d.q), x.e - DivExtra, d.r # 0)

\* a * n for a small natural number n
RECURSIVE BigTimes(_, _)
BigTimes(a, n) ==
    IF n = 0 \/ a = <<>> THEN <<>>
    ELSE LET half == BigTimes(a, n \div 2)
             dbl == IF half = <<>> THEN <<>> ELSE half \o <<0>>
         IN  IF n % 2 = 1 THEN BigAdd(dbl, a) ELSE dbl

\* n * x for a natural number n
FTimesNat(n, x) == Round(BigTimes(x.m, n), x.e, FALSE)

\* the float a decimal literal of value num / den denotes
FLit(num, den) ==
    LET d == DivBits(BitsOfNat(num) \o Zeros(DivExtra), den, 0)
    IN  Round(Strip(d.q), 0 - DivExtra, d.r # 0)

\* ------------------------------------------------------------------------
\* train()                                              test_mask.py 19-84
\* ------------------------------------------------------------------------
\* The validation loss of an epoch is the mean of binary cross entropies, a
\* finite number (non-finite predictions raise in roc_auc_score at line 67,
\* before the comparison of line 71).
LossVals == 0..MaxLoss

LargestLoss == MaxLoss
\* np.inf: greater than every loss.
Inf == MaxLoss + 1

\* model_{i}.pickle for i in range(num_iterations)
Paths == 0..(MaxIterations - 1)

\* A checkpoint file is absent, left by an earlier run, or written by this
\* run: Saved(p, e) holds the weights invocation p had after epoch e of the
\* call of train() that writes this path.
Absent == [kind |-> "absent"]
Stale == [kind |-> "stale"]
Saved(p, e) == [kind |-> "saved", by |-> p, epoch |-> e]
NotLoaded == [kind |-> "none"]
\* Python's None
None == [kind |-> "None"]

\* The epoch loop of an unbounded run (itertools.count) is cut at EpochCap
\* epochs; TrainWithinCap states that no run reaches the cut.
EpochCap == (MaxLoss + 1) * MaxPatience + 2

\* line 39: "if num_epochs" is false for None and for 0
HasBudget(n) == n # 0

ImprovesOrEqual(v, best) == v <= best
\* line 71
Improves(v, best) == v < best

CounterNeverReset(improved, c) == IF improved THEN c ELSE c + 1
\* lines 73 and 77
NextCounter(improved, c) == IF improved THEN 0 ELSE c + 1

StopsOneLate(c, pat) == c = pat + 1
\* line 78
EarlyStop(c, pat) == c = pat

\* lines 36-42: the locals of train() before the first epoch
TrainBegin(p) ==
    /\ pc[p] = "train_call"
    /\ patience_counter' = [patience_counter EXCEPT ![p] = 0]
    /\ best_loss' = [best_loss EXCEPT ![p] = Inf]
    /\ epoch' = [epoch EXCEPT ![p] = 0]
    /\ val_hist' = [val_hist EXCEPT ![p] = <<>>]
    /\ loaded' = [loaded EXCEPT ![p] = NotLoaded]
    /\ pc' = [pc EXCEPT ![p] = "train_loop"]
    /\ UNCHANGED <<patience, num_epochs, model_path, ckpt>>
    /\ UNCHANGED exceptTrain

\* lines 44-80: one pass of the epoch loop with validation loss v
Epoch(p, v) ==
    LET improved == Improves(v, best_loss[p])
        counter == NextCounter(improved, patience_counter[p])
        e == epoch[p] + 1
        exhausted == HasBudget(num_epochs[p]) /\ e = num_epochs[p]
    IN  /\ pc[p] = "train_loop"
        /\ epoch[p] < EpochCap
        /\ epoch' = [epoch EXCEPT ![p] = e]
        /\ val_hist' = [val_hist EXCEPT ![p] = Append(@, v)]
        /\ best_loss' = [best_loss EXCEPT ![p] = IF improved THEN v ELSE @]
        /\ patience_counter' = [patience_counter EXCEPT ![p] = counter]
        /\ ckpt' = IF improved
                   THEN [ckpt EXCEPT ![model_path[p]] = Saved(p, e)]
                   ELSE ckpt
        /\ pc' = [pc EXCEPT ![p] =
                    IF EarlyStop(counter, patience[p]) \/ exhausted
                    THEN "train_reload" ELSE "train_loop"]
        /\ UNCHANGED <<patience, num_epochs, model_path, loaded>>
        /\ UNCHANGED exceptTrain

\* line 83: torch.load(model_path) raises FileNotFoundError on a missing file
Reload(p) ==
    /\ pc[p] = "train_reload"
    /\ loaded' = [loaded EXCEPT ![p] = ckpt[model_path[p]]]
    /\ pc' = [pc EXCEPT ![p] =
                IF ckpt[model_path[p]] = Absent THEN "error" ELSE "train_return"]
    /\ UNCHANGED <<patience, num_epochs, model_path, epoch, patience_counter,
                   best_loss, val_hist, ckpt>>
    /\ UNCHANGED exceptTrain

\* lines 61-67: a pass whose validation predictions hold a NaN never reaches
\* line 71: binary_cross_entropy and roc_auc_score reject such predictions
EpochRaises(p) ==
    /\ pc[p] = "train_loop"
    /\ epoch[p] < EpochCap
    /\ epoch' = [epoch EXCEPT ![p] = @ + 1]
    /\ pc' = [pc EXCEPT ![p] = "raised"]
    /\ UNCHANGED <<patience, num_epochs, model_path, patience_counter,
                   best_loss, val_hist, loaded, ckpt>>
    /\ UNCHANGED exceptTrain

\* ------------------------------------------------------------------------
\* Annealer                                      concrete_dropout.py 58-74
\* ------------------------------------------------------------------------
\* line 63: the defaults n=30, max_rate=0.01
DefaultN == 30
DefaultMaxRate == FLit(1, 100)

\* the warm-up counts and maximum rates an Annealer is built with
WarmupCounts == (1..MaxWarmup) \cup {DefaultN}
MaxRates == {FLit(9, 10), FLit(1, 2), FLit(1, 1), DefaultMaxRate}

\* the learning rates an optimizer creates a group with: 0, or 0.001 (the
\* default of torch.optim.Adam)
CreatedRates == {FZero, FLit(1, 1000)}

GroupsZeroedAtInit(groups) == [g \in DOMAIN groups |-> FZero]
\* lines 63-68: __init__ stores the optimizer and assigns no 'lr'
GroupsAfterInit(groups) == groups

\* lines 71-72
GroupsAfterStep(groups, lr) == [g \in DOMAIN groups |-> lr]

\* lines 73-74
LrAfterStep(lr, max, step) == IF FLess(lr, max) THEN FAdd(lr, step) ELSE lr

\* lines 63-68
AnnealerNew(n, rate) ==
    /\ an_state = "absent"
    /\ an_state' = "built"
    /\ ann_n' = n
    /\ max_rate' = rate
    /\ stepsize' = FDivNat(rate, n)
    /\ current_lr' = FZero
    /\ param_groups' = GroupsAfterInit(param_groups)
    /\ UNCHANGED <<created_lr, written>>
    /\ UNCHANGED exceptAnnealer

\* lines 70-74
AnnealerStep ==
    /\ an_state = "built"
    /\ Len(written) < ann_n + ExtraCalls
    /\ param_groups' = GroupsAfterStep(param_groups, current_lr)
    /\ written' = Append(written, current_lr)
    /\ current_lr' = LrAfterStep(current_lr, max_rate, stepsize)
    /\ UNCHANGED <<an_state, ann_n, max_rate, stepsize, created_lr>>
    /\ UNCHANGED exceptAnnealer

\* ------------------------------------------------------------------------
\* Fixed-point real arithmetic for ConcreteDropout
\* Probabilities (p, the noise, the mask) are counted in units of 2^-28 and
\* rounded to the float32 grid, the default dtype of the tensors;
\* logarithms and sigmoid arguments are counted in thousandths.
\* ------------------------------------------------------------------------
\* 1.0 in units of 2^-28
One == 268435456

\* the number of binary digits of n
RECURSIVE BitLen(_)
BitLen(n) == IF n = 0 THEN 0 ELSE 1 + BitLen(n \div 2)

RECURSIVE Pow2(_)
Pow2(n) == IF n = 0 THEN 1 ELSE 2 * Pow2(n - 1)

\* [q, r] with a * b = q * c + r and r < c, for 0 <= a < c < 2^30 and
\* b >= 0, without overflow: b is split in two halves of its digits
RECURSIVE MulDivRem(_, _, _)
MulDivRem(a, b, c) ==
    IF b <= 2 THEN [q |-> (a * b) \div c, r |-> (a * b) % c]
    ELSE LET w == Pow2(BitLen(b) \div 2)
             hi == MulDivRem(a, b \div w, c)
             sh == MulDivRem(hi.r, w, c)
             lo == MulDivRem(a, b % w, c)
         IN  [q |-> hi.q * w + sh.q + lo.q + (sh.r + lo.r) \div c,
              r |-> (sh.r + lo.r) % c]

\* floor(a * b / c) for a, b >= 0 and 0 < c < 2^30
MulDiv(a, b, c) == (a \div c) * b + MulDivRem(a % c, b, c).q

\* the float32 spacing at v, in units: 24 significant bits
Spacing(v) ==
    IF BitLen(v) <= 24 THEN 1 ELSE Pow2(BitLen(v) - 24)

\* v rounded to the nearest float32, ties to even
Float32(v) ==
    LET g == Spacing(v)
        low == (v \div g) * g
    IN  IF 2 * (v - low) < g THEN low
        ELSE IF 2 * (v - low) > g THEN low + g
        ELSE IF (low \div g) % 2 = 0 THEN low ELSE low + g

\* term - term*r/n + term*r^2/(n(n+1)) - ..., r in millionths
RECURSIVE ExpSeries(_, _, _)
ExpSeries(term, r, n) ==
    IF term = 0 THEN 0
    ELSE term - ExpSeries(MulDiv(term, r, 1000000 * n), r, n + 1)

\* exp(-y / 1000) in units, for y >= 0: exp(-y) = 2^-q * exp(-r) with
\* y = q * ln 2 + r
ExpNeg(y) ==
    LET q == (y * 1000) \div 693147
        r == y * 1000 - q * 693147
    IN  IF q > 29 THEN 0 ELSE ExpSeries(One, r, 1) \div Pow2(q)

\* torch.sigmoid of an argument in thousandths, in units
Sigmoid(a) ==
    IF a >= 0 THEN Float32(MulDiv(One, One, One + ExpNeg(a)))
    ELSE Float32(MulDiv(ExpNeg(0 - a), One, One + ExpNeg(0 - a)))

\* the number of doublings that bring n >= 1 into [One, 2 * One)
RECURSIVE Doublings(_)
Doublings(n) == IF n >= One THEN 0 ELSE 1 + Doublings(2 * n)

\* z + z^3/3 + z^5/5 + ..., all in units
RECURSIVE AtanhSeries(_, _, _)
AtanhSeries(zpow, z2, n) ==
    IF zpow = 0 THEN 0
    ELSE zpow \div n + AtanhSeries(MulDiv(zpow, z2, One), z2, n + 2)

\* torch.log of n units (1 <= n < 2 * One), in thousandths:
\* log(m * 2^-j) = 2 * atanh((m - 1) / (m + 1)) - j * ln 2
Log(n) ==
    LET j == Doublings(n)
        m == n * Pow2(j)
        z == MulDiv(m - One, One, m + One)
        s == AtanhSeries(z, MulDiv(z, z, One), 1)
    IN  (MulDiv(2 * s, 1000000, One) - j * 693147 + 500) \div 1000

\* ------------------------------------------------------------------------
\* ConcreteDropout                            concrete_dropout.py 5-42
\* ------------------------------------------------------------------------
\* line 36: 1e-7, in units
Eps == 27

\* torch.sigmoid is exactly 0 where exp(-a) overflows float32 (a below
\* -88.722) in 1 / (1 + exp(-a)), and in any evaluation where the value is
\* below half the smallest positive float32 (a below -103.972)
ExpOverflows == -88723
Underflows == -103973

\* whether the sigmoid of a is exactly 0: either, between the two
IsZero(a) ==
    IF a <= Underflows THEN {TRUE}
    ELSE IF a <= ExpOverflows THEN BOOLEAN
    ELSE {FALSE}

\* line 16: the default init_values = 0.3, an all-zero and an all-one
\* keep-probability (logits -120 and 20)
ParamValues == {-120000, 300, 20000}
\* line 16: the default t = 0.1, and t = 1.0
Temperatures == {100, 1000}
\* line 33: uniform_() draws multiples of 2^-24 in [0, 1): 0, 0.5, 0.9 and
\* the largest float32 below 1
NoiseValues == {0, One \div 2, (((One \div 10) * 9) \div 16) * 16, One - 16}
InputValues == {-2, 1}

\* the number of elements of a tensor of this shape
RECURSIVE Numel(_)
Numel(shape) == IF shape = <<>> THEN 1 ELSE Head(shape) * Numel(Tail(shape))

\* the shapes of one or two dimensions with up to MaxShape elements
Shapes ==
    {shape \in [1..1 -> 1..MaxShape] \cup [1..2 -> 1..MaxShape] :
        Numel(shape) <= MaxShape}

\* init_values: a float, or a tensor of some shape (its elements in
\* row-major order)
Float(v) == [kind |-> "float", value |-> v]
Tensor(shape, values) == [kind |-> "tensor", shape |-> shape, values |-> values]

\* the tensors of a shape whose elements alternate between two of the values
Alternating(shape, values) ==
    {Tensor(shape, [i \in 1..Numel(shape) |-> IF i % 2 = 1 THEN c[1] ELSE c[2]]) :
        c \in values \X values}

InitValues ==
    {Float(v) : v \in ParamValues}
        \cup UNION {Alternating(shape, ParamValues) : shape \in Shapes}

\* line 22: torch.ones(input_shape) * init_values
Filled(shape, v) == Tensor(shape, [i \in 1..Numel(shape) |-> v])

SameNumel(a, b) == Numel(a) = Numel(b)
\* line 25: init_values.shape == input_shape
SameShape(a, b) == a = b

\* lines 36-38: log(q + 1e-7) - log(1 - q + 1e-7)
Logit(q) == Log(Float32(q + Eps)) - Log(Float32(Float32(One - q) + Eps))

\* lines 32 and 36-38: the argument of the outer sigmoid, in thousandths
MaskArgument(param, u, temp) ==
    ((Logit(Sigmoid(param)) + Logit(u)) * 1000) \div temp

\* lines 32 and 36-38, evaluated once for all the values drawn: the
\* argument and the mask of one element
MaskTable ==
    {LET arg == MaskArgument(c[1], c[2], c[3])
     IN  [param |-> c[1], u |-> c[2], t |-> c[3], arg |-> arg,
          val |-> Sigmoid(arg)] :
        c \in ParamValues \X NoiseValues \X Temperatures}

MaskOf(param, u, temp) ==
    CHOOSE e \in MaskTable : e.param = param /\ e.u = u /\ e.t = temp

\* lines 16-28
ConcreteDropoutNew(shape, init, temp) ==
    /\ cd_state = "absent"
    /\ init_values' = init
    /\ input_shape' = shape
    /\ IF init.kind = "float"
       THEN /\ parameter_mask' = Filled(shape, init.value)
            /\ cd_state' = "built"
       ELSE IF SameShape(init.shape, shape)
       THEN /\ parameter_mask' = init
            /\ cd_state' = "built"
       ELSE /\ cd_state' = "assertion_error"
            /\ UNCHANGED parameter_mask
    /\ t' = IF cd_state' = "built" THEN temp ELSE t
    /\ training' = TRUE
    /\ UNCHANGED <<input, uniform_distribution, mask, returned>>
    /\ UNCHANGED exceptDropout

\* nn.Module.eval(): the caller puts the layer in evaluation mode
Eval ==
    /\ cd_state = "built"
    /\ training
    /\ training' = FALSE
    /\ UNCHANGED <<cd_state, init_values, input_shape, parameter_mask, t, input,
                   uniform_distribution, mask, returned>>
    /\ UNCHANGED exceptDropout

\* line 42: (1 - mask) * input
Masked(m, inp) == [i \in DOMAIN m |-> Float32(One - m[i].val) * inp[i]]

\* lines 30-42
Forward(inp, noise, zero) ==
    LET elem == [i \in 1..Numel(input_shape) |->
                    MaskOf(parameter_mask.values[i], noise[i], t)]
        m == [i \in 1..Numel(input_shape) |->
                 [val |-> IF zero[i] THEN 0 ELSE elem[i].val,
                  zero |-> zero[i]]]
    IN  /\ cd_state = "built"
        /\ \A i \in 1..Numel(input_shape) : zero[i] \in IsZero(elem[i].arg)
        /\ input' = inp
        /\ uniform_distribution' = noise
        /\ mask' = m
        /\ returned' = IF training THEN <<Masked(m, inp), m>>
                       ELSE <<Masked(m, inp)>>
        /\ cd_state' = "called"
        /\ UNCHANGED <<init_values, input_shape, parameter_mask, t, training>>
        /\ UNCHANGED exceptDropout

\* ------------------------------------------------------------------------
\* The cache directory and its artifacts           test_mask.py 105-195
\* ------------------------------------------------------------------------
\* the feature names of the data set
Features == 1..NumFeatures

\* lines 107-108, 118-119, 184-185: the artifacts, in the loops' order
Files == <<"physio_input.npy", "physio_outcomes.npy", "physio_normalizing_dict.pkl">>
FileNames == {Files[i] : i \in 1..Len(Files)}

\* lines 161-172 and 182: data_path, data_path/mask_folder, .../top_k and
\* .../top_k/selection_method
TopDirs == {"data", "mask", "topk"}
AllDirs == TopDirs \cup {"array"}

\* An array file is modelled by where each of its columns (last dimension)
\* comes from: cols[j + 1] is the base column that column j holds.  "by" is
\* the invocation that wrote the file (0: before this run).
InputFile(cols, p) == [kind |-> "input", cols |-> cols, by |-> p]
OutcomesFile(p) == [kind |-> "outcomes", by |-> p]
\* the pickled dictionary feature -> {'idx': idx}
DictFile(idx, p) == [kind |-> "dict", idx |-> idx, by |-> p]
\* importance_dict.csv: rows with the columns features and vals
CsvFile(rows) == [kind |-> "csv", rows |-> rows]

\* a list (or array) of feature names
List(items) == [kind |-> "list", items |-> items]

\* the base input array has one column per feature and, with masking
\* features, one companion indicator column per feature after them
BaseCols(masking) ==
    [j \in 1..(IF masking THEN 2 * NumFeatures ELSE NumFeatures) |-> j - 1]

\* the three base artifacts the raw data determines
BaseFiles(idx, masking) ==
    [f \in FileNames |->
        IF f = Files[1] THEN InputFile(BaseCols(masking), 0)
        ELSE IF f = Files[2] THEN OutcomesFile(0)
        ELSE DictFile(idx, 0)]

NoFiles == [f \in FileNames |-> Absent]

Range(seq) == {seq[j] : j \in 1..Len(seq)}

Perms(n) == {q \in [1..n -> 1..n] : \A a, b \in 1..n : a # b => q[a] # q[b]}

\* ------------------------------------------------------------------------
\* get_features()                                  test_mask.py 150-153
\* ------------------------------------------------------------------------
\* line 152: sort_values('vals') sorts ascending
Ascending(seq) == \A j \in 1..(Len(seq) - 1) : seq[j].vals <= seq[j + 1].vals

\* line 152: the orders sort_values may leave the rows in (its default sort
\* is not stable: rows of equal vals come out in any order)
SortValues(rows) ==
    {[j \in 1..Len(rows) |-> rows[q[j]]] : q \in {r \in Perms(Len(rows)) :
        Ascending([j \in 1..Len(rows) |-> rows[r[j]]])}}

LastK(sorted, n) ==
    [j \in 1..Smaller(n, Len(sorted)) |->
        sorted[Len(sorted) - Smaller(n, Len(sorted)) + j].features]
\* line 153: importance_dict.features.values[:k]
FirstK(sorted, n) == [j \in 1..Smaller(n, Len(sorted)) |-> sorted[j].features]

\* lines 150-153: pd.read_csv raises FileNotFoundError on a missing file
GetFeatures(p) ==
    /\ pc[p] = "get_features"
    /\ calls' = [calls EXCEPT ![p] = Append(@, "get_features")]
    /\ IF importance = Absent
       THEN /\ pc' = [pc EXCEPT ![p] = "error"]
            /\ UNCHANGED features
       ELSE /\ \E sorted \in SortValues(importance.rows) :
                  features' = [features EXCEPT ![p] = List(FirstK(sorted, k))]
            /\ pc' = [pc EXCEPT ![p] = "preprocess_data"]
    /\ UNCHANGED <<argVars, cacheVars, file_i, pp_i, org_input, org_outcomes,
                   org_dict, X, Y>>
    /\ UNCHANGED exceptHarness

\* ------------------------------------------------------------------------
\* preprocess_data()                               test_mask.py 105-147
\* ------------------------------------------------------------------------
\* line 135: np.random.choice(all_features, size=n, replace=False); no
\* sample exists (ValueError) when n exceeds the number of features
RandomChoice(all, n) ==
    {c \in [1..n -> all] : \A a, b \in 1..n : a # b => c[a] # c[b]}

IndicesReversed(idx, feats, masking) ==
    LET rel == [j \in 1..Len(feats) |-> idx[feats[Len(feats) + 1 - j]]]
    IN  IF masking
        THEN rel \o [j \in 1..Len(feats) |-> rel[j] + Cardinality(DOMAIN idx)]
        ELSE rel
CompanionsByK(idx, feats, masking) ==
    LET rel == [j \in 1..Len(feats) |-> idx[feats[j]]]
    IN  IF masking
        THEN rel \o [j \in 1..Len(feats) |-> rel[j] + Len(feats)]
        ELSE rel
\* lines 138-141: relevant_indices, with the companion columns
\* idx + len(org_dict) after them when masking_features is set
RelevantIndices(idx, feats, masking) ==
    LET rel == [j \in 1..Len(feats) |-> idx[feats[j]]]
    IN  IF masking
        THEN rel \o [j \in 1..Len(feats) |-> rel[j] + Cardinality(DOMAIN idx)]
        ELSE rel

\* the last position of f in feats (a later key of a dict comprehension
\* replaces an earlier equal one)
LastPos(feats, f) ==
    CHOOSE j \in 1..Len(feats) :
        feats[j] = f /\ \A i \in (j + 1)..Len(feats) : feats[i] # f

\* line 142: {feat: {'idx': idx} for idx, feat in enumerate(features)}
NewDict(feats) == [f \in Range(feats) |-> LastPos(feats, f) - 1]

\* line 144: org_input[:, :, relevant_indices]
NewInput(cols, rel) == [j \in 1..Len(rel) |-> cols[rel[j] + 1]]

\* line 144 raises IndexError for an index outside the base array
InBounds(cols, rel) == \A j \in 1..Len(rel) : rel[j] + 1 \in 1..Len(cols)

\* line 105: the call
PreprocessData(p) ==
    /\ pc[p] = "preprocess_data"
    /\ calls' = [calls EXCEPT ![p] = Append(@, "preprocess_data")]
    /\ pp_i' = [pp_i EXCEPT ![p] = 1]
    /\ pc' = [pc EXCEPT ![p] = "pp_remove"]
    /\ UNCHANGED <<argVars, cacheVars, file_i, features, org_input,
                   org_outcomes, org_dict, X, Y>>
    /\ UNCHANGED exceptHarness

\* lines 107-110: one pass of the loop that deletes the cached files
PpRemove(p) ==
    /\ pc[p] = "pp_remove"
    /\ arr' = [arr EXCEPT ![Files[pp_i[p]]] = Absent]
    /\ pp_i' = [pp_i EXCEPT ![p] = @ + 1]
    /\ pc' = [pc EXCEPT ![p] = IF pp_i[p] = Len(Files) THEN "pp_mkdir" ELSE "pp_remove"]
    /\ UNCHANGED <<argVars, raw_idx, dirs, importance, base, file_i, features,
                   org_input, org_outcomes, org_dict, X, Y, calls>>
    /\ UNCHANGED exceptHarness

\* lines 112-113: mkdir() raises FileNotFoundError without the parent
PpMkdir(p) ==
    /\ pc[p] = "pp_mkdir"
    /\ IF "array" \in dirs
       THEN /\ pc' = [pc EXCEPT ![p] = "pp_check_base"]
            /\ UNCHANGED dirs
       ELSE IF TopDirs \subseteq dirs
       THEN /\ pc' = [pc EXCEPT ![p] = "pp_check_base"]
            /\ dirs' = dirs \cup {"array"}
       ELSE /\ pc' = [pc EXCEPT ![p] = "error"]
            /\ UNCHANGED dirs
    /\ pp_i' = [pp_i EXCEPT ![p] = 1]
    /\ UNCHANGED <<argVars, raw_idx, importance, base, arr, file_i, features,
                   org_input, org_outcomes, org_dict, X, Y, calls>>
    /\ UNCHANGED exceptHarness

\* lines 118-121: one pass of the loop that checks the base artifacts
PpCheckBase(p) ==
    /\ pc[p] = "pp_check_base"
    /\ IF pp_i[p] > Len(Files)
       THEN /\ pc' = [pc EXCEPT ![p] = "pp_load_base"]
            /\ UNCHANGED pp_i
       ELSE IF base[Files[pp_i[p]]] # Absent
       THEN /\ pp_i' = [pp_i EXCEPT ![p] = @ + 1]
            /\ UNCHANGED pc
       ELSE /\ pc' = [pc EXCEPT ![p] = "org_preprocessor"]
            /\ UNCHANGED pp_i
    /\ UNCHANGED <<argVars, cacheVars, file_i, features, org_input,
                   org_outcomes, org_dict, X, Y, calls>>
    /\ UNCHANGED exceptHarness

\* line 122: the base data preprocessor (get_mask.preprocess_data) produces
\* the base artifacts that are absent
OrgPreprocessor(p) ==
    /\ pc[p] = "org_preprocessor"
    /\ calls' = [calls EXCEPT ![p] = Append(@, "org_preprocessor")]
    /\ base' = [f \in FileNames |->
                   IF base[f] = Absent
                   THEN BaseFiles(raw_idx, masking_features)[f] ELSE base[f]]
    /\ pp_i' = [pp_i EXCEPT ![p] = @ + 1]
    /\ pc' = [pc EXCEPT ![p] = "pp_check_base"]
    /\ UNCHANGED <<argVars, raw_idx, dirs, importance, arr, file_i, features,
                   org_input, org_outcomes, org_dict, X, Y>>
    /\ UNCHANGED exceptHarness

\* lines 124-127
PpLoadBase(p) ==
    /\ pc[p] = "pp_load_base"
    /\ IF \E f \in FileNames : base[f] = Absent
       THEN /\ pc' = [pc EXCEPT ![p] = "error"]
            /\ UNCHANGED <<org_input, org_outcomes, org_dict>>
       ELSE /\ org_input' = [org_input EXCEPT ![p] = base[Files[1]]]
            /\ org_outcomes' = [org_outcomes EXCEPT ![p] = base[Files[2]]]
            /\ org_dict' = [org_dict EXCEPT ![p] = base[Files[3]]]
            /\ pc' = [pc EXCEPT ![p] = "pp_save_outcomes"]
    /\ UNCHANGED <<argVars, cacheVars, file_i, pp_i, features, X, Y, calls>>
    /\ UNCHANGED exceptHarness

\* line 130
PpSaveOutcomes(p) ==
    /\ pc[p] = "pp_save_outcomes"
    /\ arr' = [arr EXCEPT ![Files[2]] = OutcomesFile(p)]
    /\ pc' = [pc EXCEPT ![p] = "pp_choose"]
    /\ UNCHANGED <<argVars, raw_idx, dirs, importance, base, file_i, pp_i,
                   features, org_input, org_outcomes, org_dict, X, Y, calls>>
    /\ UNCHANGED exceptHarness

\* lines 132-135
PpChoose(p) ==
    /\ pc[p] = "pp_choose"
    /\ IF features[p] # None
       THEN /\ pc' = [pc EXCEPT ![p] = "pp_save_input"]
            /\ UNCHANGED features
       ELSE IF RandomChoice(DOMAIN org_dict[p].idx, k) = {}
       THEN /\ pc' = [pc EXCEPT ![p] = "error"]
            /\ UNCHANGED features
       ELSE /\ \E c \in RandomChoice(DOMAIN org_dict[p].idx, k) :
                  features' = [features EXCEPT ![p] = List(c)]
            /\ pc' = [pc EXCEPT ![p] = "pp_save_input"]
    /\ UNCHANGED <<argVars, cacheVars, file_i, pp_i, org_input, org_outcomes,
                   org_dict, X, Y, calls>>
    /\ UNCHANGED exceptHarness

\* lines 137-145
PpSaveInput(p) ==
    LET rel == RelevantIndices(org_dict[p].idx, features[p].items, masking_features)
    IN  /\ pc[p] = "pp_save_input"
        /\ IF InBounds(org_input[p].cols, rel)
           THEN /\ arr' = [arr EXCEPT ![Files[1]] =
                              InputFile(NewInput(org_input[p].cols, rel), p)]
                /\ pc' = [pc EXCEPT ![p] = "pp_save_dict"]
           ELSE /\ pc' = [pc EXCEPT ![p] = "error"]
                /\ UNCHANGED arr
        /\ UNCHANGED <<argVars, raw_idx, dirs, importance, base, file_i, pp_i,
                       features, org_input, org_outcomes, org_dict, X, Y, calls>>
        /\ UNCHANGED exceptHarness

\* lines 142 and 146-147
PpSaveDict(p) ==
    /\ pc[p] = "pp_save_dict"
    /\ arr' = [arr EXCEPT ![Files[3]] = DictFile(NewDict(features[p].items), p)]
    /\ pc' = [pc EXCEPT ![p] = "pp_return"]
    /\ UNCHANGED <<argVars, raw_idx, dirs, importance, base, file_i, pp_i,
                   features, org_input, org_outcomes, org_dict, X, Y, calls>>
    /\ UNCHANGED exceptHarness

\* the steps of preprocess_data()
Preprocess(p) ==
    \/ PreprocessData(p)
    \/ PpRemove(p)
    \/ PpMkdir(p)
    \/ PpCheckBase(p)
    \/ OrgPreprocessor(p)
    \/ PpLoadBase(p)
    \/ PpSaveOutcomes(p)
    \/ PpChoose(p)
    \/ PpSaveInput(p)
    \/ PpSaveDict(p)

\* ------------------------------------------------------------------------
\* test_topk(): from the call to the loaded arrays  test_mask.py 156-195
\* ------------------------------------------------------------------------
\* the rankings get_mask may leave in importance_dict.csv: one row per
\* feature, in the order of the features, with any values
MaskRankings ==
    {[f \in Features |-> [features |-> f, vals |-> v[f]]] :
        v \in [Features -> 0..MaxVal]}

ChecksAlways(rk) == TRUE
\* line 174: if not random_k
ChecksImportance(rk) == ~rk

MaskNeverMissing(imp) == FALSE
\* line 177: not (.../'importance_dict.csv').exists()
MaskMissing(imp) == imp = Absent

\* lines 161-174 and 182: the folder structure and the selection method
TestTopk(p) ==
    /\ pc[p] = "test_topk"
    /\ dirs' = dirs \cup TopDirs
    /\ file_i' = [file_i EXCEPT ![p] = 1]
    /\ pc' = [pc EXCEPT ![p] =
                 IF ChecksImportance(random_k) THEN "check_importance"
                 ELSE "file_loop"]
    /\ UNCHANGED <<argVars, raw_idx, importance, base, arr, pp_i, features,
                   org_input, org_outcomes, org_dict, X, Y, calls>>
    /\ UNCHANGED exceptHarness

\* line 177
CheckImportance(p) ==
    /\ pc[p] = "check_importance"
    /\ calls' = [calls EXCEPT ![p] = Append(@, "exists_importance")]
    /\ pc' = [pc EXCEPT ![p] =
                 IF MaskMissing(importance) THEN "get_mask" ELSE "file_loop"]
    /\ UNCHANGED <<argVars, cacheVars, file_i, pp_i, features, org_input,
                   org_outcomes, org_dict, X, Y>>
    /\ UNCHANGED exceptHarness

\* line 179: the mask-learning procedure writes the ranking; it may run the
\* base data preprocessor, which produces the base artifacts that are absent
GetMask(p) ==
    /\ pc[p] = "get_mask"
    /\ calls' = [calls EXCEPT ![p] = Append(@, "get_mask")]
    /\ \E rows \in MaskRankings : importance' = CsvFile(rows)
    /\ \E preprocessed \in BOOLEAN :
          base' = [f \in FileNames |->
                      IF preprocessed /\ base[f] = Absent
                      THEN BaseFiles(raw_idx, masking_features)[f]
                      ELSE base[f]]
    /\ pc' = [pc EXCEPT ![p] = "file_loop"]
    /\ UNCHANGED <<argVars, raw_idx, dirs, arr, file_i, pp_i, features,
                   org_input, org_outcomes, org_dict, X, Y>>
    /\ UNCHANGED exceptHarness

ExistsNever(file) == FALSE
ExistsAlways(file) == TRUE
\* line 186: (array_folder_path/file).exists()
Exists(file) == file # Absent

\* lines 184-191: one pass of the loop over the cached files, up to the
\* call of get_features or preprocess_data
FileLoop(p) ==
    /\ pc[p] = "file_loop"
    /\ IF file_i[p] > Len(Files)
       THEN /\ pc' = [pc EXCEPT ![p] = "load_X"]
            /\ UNCHANGED <<file_i, features>>
       ELSE IF Exists(arr[Files[file_i[p]]])
       THEN /\ file_i' = [file_i EXCEPT ![p] = @ + 1]
            /\ UNCHANGED <<pc, features>>
       ELSE IF ChecksImportance(random_k)
       THEN /\ pc' = [pc EXCEPT ![p] = "get_features"]
            /\ UNCHANGED <<file_i, features>>
       ELSE /\ features' = [features EXCEPT ![p] = None]
            /\ pc' = [pc EXCEPT ![p] = "preprocess_data"]
            /\ UNCHANGED file_i
    /\ UNCHANGED <<argVars, cacheVars, pp_i, org_input, org_outcomes,
                   org_dict, X, Y, calls>>
    /\ UNCHANGED exceptHarness

\* line 192: preprocess_data returns and the loop goes to the next file
PpReturn(p) ==
    /\ pc[p] = "pp_return"
    /\ file_i' = [file_i EXCEPT ![p] = @ + 1]
    /\ pc' = [pc EXCEPT ![p] = "file_loop"]
    /\ UNCHANGED <<argVars, cacheVars, pp_i, features, org_input,
                   org_outcomes, org_dict, X, Y, calls>>
    /\ UNCHANGED exceptHarness

\* line 194: np.load raises FileNotFoundError on a missing file
LoadX(p) ==
    /\ pc[p] = "load_X"
    /\ IF arr[Files[1]] = Absent
       THEN /\ pc' = [pc EXCEPT ![p] = "error"]
            /\ UNCHANGED X
       ELSE /\ X' = [X EXCEPT ![p] = arr[Files[1]]]
            /\ pc' = [pc EXCEPT ![p] = "load_Y"]
    /\ UNCHANGED <<argVars, cacheVars, file_i, pp_i, features, org_input,
                   org_outcomes, org_dict, Y, calls>>
    /\ UNCHANGED exceptHarness

\* line 195
LoadY(p) ==
    /\ pc[p] = "load_Y"
    /\ IF arr[Files[2]] = Absent
       THEN /\ pc' = [pc EXCEPT ![p] = "error"]
            /\ UNCHANGED Y
       ELSE /\ Y' = [Y EXCEPT ![p] = arr[Files[2]]]
            /\ pc' = [pc EXCEPT ![p] = "cycles"]
    /\ UNCHANGED <<argVars, cacheVars, file_i, pp_i, features, org_input,
                   org_outcomes, org_dict, X, calls>>
    /\ UNCHANGED exceptHarness

\* the steps of test_topk() before its train/evaluate cycles
Setup(p) ==
    \/ TestTopk(p)
    \/ CheckImportance(p)
    \/ GetMask(p)
    \/ FileLoop(p)
    \/ GetFeatures(p)
    \/ Preprocess(p)
    \/ PpReturn(p)
    \/ LoadX(p)
    \/ LoadY(p)

\* ------------------------------------------------------------------------
\* test_topk(): the train/evaluate cycles          test_mask.py 197-210
\* ------------------------------------------------------------------------
\* the AUC values predict() may return, in hundredths
AucValues == {50, 90}

\* the validation losses of the epochs of a cycle: two levels
CycleLosses == {0, MaxLoss}

\* line 200: patience=2
CyclePatience == 2

SharedPath(i) == 0
\* line 200: f'model_{i}.pickle'
CheckpointPath(i) == i

RECURSIVE SumOfAucs(_)
SumOfAucs(rocs) ==
    IF rocs = <<>> THEN 0
    ELSE rocs[Len(rocs)].auc + SumOfAucs(SubSeq(rocs, 1, Len(rocs) - 1))

RECURSIVE SumOfSquares(_)
SumOfSquares(rocs) ==
    IF rocs = <<>> THEN 0
    ELSE rocs[Len(rocs)].auc * rocs[Len(rocs)].auc
             + SumOfSquares(SubSeq(rocs, 1, Len(rocs) - 1))

\* lines 205-206: np.mean is total / n, np.std the square root of
\* (n * squares - total^2) / n^2
MeanAndStd(rocs) ==
    [n |-> Len(rocs),
     total |-> SumOfAucs(rocs),
     deviation |-> Len(rocs) * SumOfSquares(rocs) - SumOfAucs(rocs) * SumOfAucs(rocs)]

\* line 197
Cycles(p) ==
    /\ pc[p] = "cycles"
    /\ all_rocs' = [all_rocs EXCEPT ![p] = <<>>]
    /\ cycle_i' = [cycle_i EXCEPT ![p] = 0]
    /\ pc' = [pc EXCEPT ![p] = "for_cycle"]
    /\ UNCHANGED <<num_iterations, reported, trainVars, localVars>>
    /\ UNCHANGED exceptCycles

\* lines 198-201: the loop ends, or its next pass calls train()
ForCycle(p) ==
    /\ pc[p] = "for_cycle"
    /\ IF cycle_i[p] < num_iterations
       THEN /\ model_path' = [model_path EXCEPT ![p] = CheckpointPath(cycle_i[p])]
            /\ patience' = [patience EXCEPT ![p] = CyclePatience]
            /\ num_epochs' = [num_epochs EXCEPT ![p] = 0]
            /\ calls' = [calls EXCEPT ![p] = Append(@, "train")]
            /\ pc' = [pc EXCEPT ![p] = "train_call"]
       ELSE /\ pc' = [pc EXCEPT ![p] = "report"]
            /\ UNCHANGED <<model_path, patience, num_epochs, calls>>
    /\ UNCHANGED <<epoch, patience_counter, best_loss, val_hist, loaded, ckpt>>
    /\ UNCHANGED <<file_i, pp_i, features, org_input, org_outcomes, org_dict, X, Y>>
    /\ UNCHANGED cycleVars
    /\ UNCHANGED exceptCycles

\* lines 203-204: predict() on the model train() returned
Predict(p, auc) ==
    /\ pc[p] = "train_return"
    /\ calls' = [calls EXCEPT ![p] = Append(@, "predict")]
    /\ all_rocs' = [all_rocs EXCEPT ![p] =
                       Append(@, [auc |-> auc, model |-> loaded[p]])]
    /\ cycle_i' = [cycle_i EXCEPT ![p] = @ + 1]
    /\ pc' = [pc EXCEPT ![p] = "for_cycle"]
    /\ UNCHANGED <<num_iterations, reported, trainVars>>
    /\ UNCHANGED <<file_i, pp_i, features, org_input, org_outcomes, org_dict, X, Y>>
    /\ UNCHANGED exceptCycles

\* lines 205-210: line 207 formats loss, which no pass of the loop has
\* bound when num_iterations is 0 (UnboundLocalError)
Report(p) ==
    /\ pc[p] = "report"
    /\ IF all_rocs[p] = <<>>
       THEN /\ pc' = [pc EXCEPT ![p] = "error"]
            /\ UNCHANGED reported
       ELSE /\ reported' = [reported EXCEPT ![p] = MeanAndStd(all_rocs[p])]
            /\ pc' = [pc EXCEPT ![p] = "done"]
    /\ UNCHANGED <<num_iterations, cycle_i, all_rocs, trainVars, localVars>>
    /\ UNCHANGED exceptCycles

\* ------------------------------------------------------------------------
\* ConcreteRegularizer                      concrete_dropout.py 45-55
\* ------------------------------------------------------------------------
\* lam in units of 2^-10, mask elements in units of 2^-28; a penalty is
\* m * 2^e in units of 2^-38, with m odd or zero.
LamValues == {-20, -10, 10, 20}

\* the mask values a cell with parameter 0.3 and t = 1 produces
MaskValues == {e.val : e \in {x \in MaskTable : x.param = 300 /\ x.t = 1000}}

Masks == UNION {Alternating(shape, MaskValues) : shape \in Shapes}

Abs(n) == IF n < 0 THEN -n ELSE n

RECURSIVE Normal(_, _)
Normal(m, e) ==
    IF m = 0 THEN [m |-> 0, e |-> 0]
    ELSE IF m % 2 = 0 THEN Normal(m \div 2, e + 1)
    ELSE [m |-> m, e |-> e]

\* the position of element i of a row-major tensor of this shape
Coords(shape, i) ==
    [d \in 1..Len(shape) |->
        (((i - 1) \div Numel(SubSeq(shape, d + 1, Len(shape)))) % shape[d]) + 1]

\* the dimensions of 1..ndim a reduction over dims keeps, in order
RECURSIVE Kept(_, _)
Kept(ndim, dims) ==
    IF ndim = 0 THEN <<>>
    ELSE IF ndim \in dims THEN Kept(ndim - 1, dims)
    ELSE Append(Kept(ndim - 1, dims), ndim)

\* the float32 sum of values[i], i in group, added in the given order
RECURSIVE SumIn(_, _, _)
SumIn(order, group, values) ==
    IF order = <<>> THEN 0
    ELSE LET rest == SumIn(SubSeq(order, 1, Len(order) - 1), group, values)
             i == order[Len(order)]
         IN  IF i \in group THEN Float32(rest + values[i]) ELSE rest

\* torch.sum(tensor, dims)
Sum(tensor, dims, order) ==
    LET kept == Kept(Len(tensor.shape), dims)
        shape == [j \in 1..Len(kept) |-> tensor.shape[kept[j]]]
        Group(o) ==
            {i \in 1..Numel(tensor.shape) :
                \A j \in 1..Len(kept) :
                    Coords(tensor.shape, i)[kept[j]] = Coords(shape, o)[j]}
    IN  Tensor(shape,
               [o \in 1..Numel(shape) |-> SumIn(order, Group(o), tensor.values)])

\* scalar * float32 element, rounded to float32
Times(scalar, v) ==
    LET g == Spacing(v)
        p == Float32(Abs(scalar) * (v \div g))
    IN  Normal(IF scalar < 0 THEN -p ELSE p, BitLen(g) - 1)

NonBatchDims(ndim) == 2..ndim

\* line 55: tuple(range(mask.ndimension()))
Dims(ndim) == 1..ndim

\* lines 48-50
ConcreteRegularizerNew(l) ==
    /\ reg_mask # None
    /\ l \notin DOMAIN penalties
    /\ lam' = Float(l)
    /\ UNCHANGED <<reg_mask, sum_order, penalties>>
    /\ UNCHANGED exceptRegularizer

\* lines 52-55
RegularizerForward ==
    /\ lam # None
    /\ lam.value \notin DOMAIN penalties
    /\ LET s == Sum(reg_mask, Dims(Len(reg_mask.shape)), sum_order)
       IN  penalties' = penalties @@
               (lam.value :>
                   Tensor(s.shape,
                          [o \in DOMAIN s.values |-> Times(lam.value, s.values[o])]))
    /\ UNCHANGED <<reg_mask, sum_order, lam>>
    /\ UNCHANGED exceptRegularizer

\* ------------------------------------------------------------------------
\* Specifications
\* ------------------------------------------------------------------------
Idle == [p \in Procs |-> 0]

\* no train() call in progress and no checkpoint on disk
TrainIdle ==
    /\ patience = Idle
    /\ num_epochs = Idle
    /\ model_path = Idle
    /\ epoch = Idle
    /\ patience_counter = Idle
    /\ best_loss = [p \in Procs |-> Inf]
    /\ val_hist = [p \in Procs |-> <<>>]
    /\ loaded = [p \in Procs |-> NotLoaded]
    /\ ckpt = [i \in Paths |-> Absent]

\* no Annealer and no optimizer
AnnealerIdle ==
    /\ an_state = "absent"
    /\ ann_n = 0
    /\ max_rate = FZero
    /\ stepsize = FZero
    /\ current_lr = FZero
    /\ param_groups = <<>>
    /\ created_lr = <<>>
    /\ written = <<>>

\* the raw data lists its features in some order: feature -> column index
RawOrders == {[f \in Features |-> q[f] - 1] : q \in Perms(NumFeatures)}
\* the order in which the features are numbered
RawOrder == [f \in Features |-> f - 1]

\* every ranking file: rows of distinct features, in any order, any values
Rankings ==
    UNION {{[j \in 1..n |-> [features |-> c[j], vals |-> v[j]]] :
               c \in RandomChoice(Features, n), v \in [1..n -> 0..MaxVal]} :
           n \in 1..NumFeatures}

\* every list of distinct features
Selections == UNION {RandomChoice(Features, n) : n \in 1..NumFeatures}

\* the files a run that selected feats left in the array folder
CachedFiles(idx, feats, masking) ==
    [f \in FileNames |->
        IF f = Files[1]
        THEN InputFile(NewInput(BaseCols(masking),
                                RelevantIndices(idx, feats, masking)), 0)
        ELSE IF f = Files[2] THEN OutcomesFile(0)
        ELSE DictFile(NewDict(feats), 0)]

\* the files of S out of files
Only(files, S) == [f \in FileNames |-> IF f \in S THEN files[f] ELSE Absent]

\* no harness invocation and an empty cache directory
HarnessIdle ==
    /\ random_k = FALSE
    /\ masking_features = FALSE
    /\ k = 0
    /\ raw_idx = RawOrder
    /\ dirs = {}
    /\ importance = Absent
    /\ base = NoFiles
    /\ arr = NoFiles
    /\ file_i = Idle
    /\ pp_i = Idle
    /\ features = [p \in Procs |-> None]
    /\ org_input = [p \in Procs |-> None]
    /\ org_outcomes = [p \in Procs |-> None]
    /\ org_dict = [p \in Procs |-> None]
    /\ X = [p \in Procs |-> None]
    /\ Y = [p \in Procs |-> None]
    /\ calls = [p \in Procs |-> <<>>]

\* the locals of every invocation before it runs
LocalsIdle ==
    /\ file_i = Idle
    /\ pp_i = Idle
    /\ org_input = [p \in Procs |-> None]
    /\ org_outcomes = [p \in Procs |-> None]
    /\ org_dict = [p \in Procs |-> None]
    /\ X = [p \in Procs |-> None]
    /\ Y = [p \in Procs |-> None]
    /\ calls = [p \in Procs |-> <<>>]

\* no ConcreteDropout layer
DropoutIdle ==
    /\ cd_state = "absent"
    /\ init_values = None
    /\ input_shape = <<>>
    /\ parameter_mask = None
    /\ t = 0
    /\ training = FALSE
    /\ input = <<>>
    /\ uniform_distribution = <<>>
    /\ mask = <<>>
    /\ returned = <<>>

\* no train/evaluate cycle
CyclesIdle ==
    /\ num_iterations = 0
    /\ cycle_i = Idle
    /\ all_rocs = [p \in Procs |-> <<>>]
    /\ reported = [p \in Procs |-> None]

RegularizerIdle ==
    /\ reg_mask = None
    /\ sum_order = <<>>
    /\ lam = None
    /\ penalties = <<>>

\* SpecTrain: one call of train() by invocation 1, for every patience, every
\* epoch budget and a checkpoint path that is free or holds an older file.
InitTrain ==
    /\ DropoutIdle
    /\ RegularizerIdle
    /\ CyclesIdle
    /\ AnnealerIdle
    /\ HarnessIdle
    /\ pc = [p \in Procs |-> IF p = 1 THEN "train_call" ELSE "off"]
    /\ \E pat \in 1..MaxPatience : patience = [Idle EXCEPT ![1] = pat]
    /\ \E n \in 0..MaxBudget : num_epochs = [Idle EXCEPT ![1] = n]
    /\ model_path = Idle
    /\ epoch = Idle
    /\ patience_counter = Idle
    /\ best_loss = [p \in Procs |-> Inf]
    /\ val_hist = [p \in Procs |-> <<>>]
    /\ loaded = [p \in Procs |-> NotLoaded]
    /\ \E old \in {Absent, Stale} :
          ckpt = [i \in Paths |-> IF i = 0 THEN old ELSE Absent]

NextTrain ==
    \E p \in Procs :
        \/ TrainBegin(p)
        \/ \E v \in LossVals : Epoch(p, v)
        \/ Reload(p)

SpecTrain == InitTrain /\ [][NextTrain]_vars

\* The epoch loop is a plain sequential loop: a started call keeps running.
SpecTrainFair == SpecTrain /\ WF_vars(NextTrain)

\* SpecTrainRaising: the calls of SpecTrain, with epochs whose validation
\* predictions hold a NaN.
NextTrainRaising ==
    \E p \in Procs :
        \/ TrainBegin(p)
        \/ \E v \in LossVals : Epoch(p, v)
        \/ EpochRaises(p)
        \/ Reload(p)

SpecTrainRaising == InitTrain /\ [][NextTrainRaising]_vars

\* SpecAnnealer: an optimizer is wrapped in an Annealer, which is stepped.
\* an optimizer with 1..MaxGroups parameter groups, not yet wrapped
InitAnnealer ==
    /\ pc = [p \in Procs |-> "off"]
    /\ DropoutIdle
    /\ RegularizerIdle
    /\ CyclesIdle
    /\ TrainIdle
    /\ HarnessIdle
    /\ an_state = "absent"
    /\ ann_n = 0
    /\ max_rate = FZero
    /\ stepsize = FZero
    /\ current_lr = FZero
    /\ \E groups \in 1..MaxGroups : param_groups \in [1..groups -> CreatedRates]
    /\ created_lr = param_groups
    /\ written = <<>>

NextAnnealer ==
    \/ \E n \in WarmupCounts, rate \in MaxRates : AnnealerNew(n, rate)
    \/ AnnealerStep

SpecAnnealer == InitAnnealer /\ [][NextAnnealer]_vars

\* SpecFeatures: one call of get_features() by invocation 1, on every ranking
\* file and every k.
InitFeatures ==
    /\ DropoutIdle
    /\ RegularizerIdle
    /\ CyclesIdle
    /\ TrainIdle
    /\ AnnealerIdle
    /\ LocalsIdle
    /\ pc = [p \in Procs |-> IF p = 1 THEN "get_features" ELSE "off"]
    /\ random_k = FALSE
    /\ masking_features \in BOOLEAN
    /\ k \in 1..NumFeatures
    /\ raw_idx = RawOrder
    /\ dirs = TopDirs
    /\ importance \in {Absent} \cup {CsvFile(rows) : rows \in Rankings}
    /\ base = NoFiles
    /\ arr = NoFiles
    /\ features = [p \in Procs |-> None]

NextFeatures == \E p \in Procs : GetFeatures(p)

SpecFeatures == InitFeatures /\ [][NextFeatures]_vars

\* the prefixes of data_path/mask_folder/top_k/selection_method
DirChains == {{}, {"data"}, {"data", "mask"}, TopDirs, AllDirs}

\* SpecPreprocess: one call of preprocess_data() by invocation 1, with a
\* list of features or None, over base artifacts that exist or not and an
\* array folder that is missing, empty or holds the files of an older
\* selection.
InitPreprocess ==
    /\ DropoutIdle
    /\ RegularizerIdle
    /\ CyclesIdle
    /\ TrainIdle
    /\ AnnealerIdle
    /\ LocalsIdle
    /\ pc = [p \in Procs |-> IF p = 1 THEN "preprocess_data" ELSE "off"]
    /\ random_k \in BOOLEAN
    /\ masking_features \in BOOLEAN
    /\ \E sel \in IF random_k THEN {None} ELSE {List(c) : c \in Selections} :
          /\ features = [p \in Procs |-> IF p = 1 THEN sel ELSE None]
          /\ k \in IF random_k THEN 1..(NumFeatures + 1) ELSE {Len(sel.items)}
    /\ raw_idx \in RawOrders
    /\ importance = Absent
    /\ base \in {NoFiles, BaseFiles(raw_idx, masking_features)}
    /\ dirs \in DirChains
    /\ arr \in IF "array" \in dirs
               THEN {NoFiles,
                     CachedFiles(raw_idx, <<NumFeatures>>, masking_features)}
               ELSE {NoFiles}

NextPreprocess == \E p \in Procs : Preprocess(p)

SpecPreprocess == InitPreprocess /\ [][NextPreprocess]_vars

\* SpecHarness: one run of test_topk() by invocation 1, up to its cycles,
\* over the states of the cache directory: any of the folders, the ranking
\* and any of the cached files may exist or not, and the base artifacts
\* exist up to the point where their preprocessor was interrupted.
InitHarness ==
    /\ DropoutIdle
    /\ RegularizerIdle
    /\ CyclesIdle
    /\ TrainIdle
    /\ AnnealerIdle
    /\ LocalsIdle
    /\ pc = [p \in Procs |-> IF p = 1 THEN "test_topk" ELSE "off"]
    /\ random_k \in BOOLEAN
    /\ masking_features \in BOOLEAN
    /\ k \in 1..NumFeatures
    /\ raw_idx = RawOrder
    /\ dirs \in DirChains
    /\ importance \in IF "mask" \in dirs
                      THEN {Absent} \cup {CsvFile(rows) : rows \in MaskRankings}
                      ELSE {Absent}
    /\ \E n \in 0..Len(Files) :
          base = IF "mask" \in dirs
                 THEN Only(BaseFiles(raw_idx, masking_features),
                           {Files[j] : j \in 1..n})
                 ELSE NoFiles
    /\ \E S \in SUBSET FileNames :
          arr = IF "array" \in dirs
                THEN Only(CachedFiles(raw_idx, [j \in 1..k |-> j],
                                      masking_features), S)
                ELSE NoFiles
    /\ features = [p \in Procs |-> None]

NextHarness == \E p \in Procs : Setup(p)

SpecHarness == InitHarness /\ [][NextHarness]_vars

\* SpecRace: two invocations of test_topk() with the same arguments, hence the
\* same cache key, have set up the folders and the ranking and run lines
\* 184-195 concurrently on one data directory; every step between two
\* file-system operations is atomic.
InitRace ==
    /\ DropoutIdle
    /\ RegularizerIdle
    /\ CyclesIdle
    /\ TrainIdle
    /\ AnnealerIdle
    /\ pc = [p \in Procs |-> "file_loop"]
    /\ random_k \in BOOLEAN
    /\ masking_features = FALSE
    /\ k = 1
    /\ raw_idx = RawOrder
    /\ dirs = AllDirs
    /\ importance = CsvFile([f \in Features |->
                                [features |-> f, vals |-> IF f = 1 THEN 0 ELSE MaxVal]])
    /\ base \in {NoFiles, BaseFiles(raw_idx, masking_features)}
    /\ \E S \in SUBSET FileNames :
          arr = Only(CachedFiles(raw_idx, <<1>>, masking_features), S)
    /\ file_i = [p \in Procs |-> 1]
    /\ pp_i = Idle
    /\ features = [p \in Procs |-> None]
    /\ org_input = [p \in Procs |-> None]
    /\ org_outcomes = [p \in Procs |-> None]
    /\ org_dict = [p \in Procs |-> None]
    /\ X = [p \in Procs |-> None]
    /\ Y = [p \in Procs |-> None]
    /\ calls = [p \in Procs |-> <<>>]

NextRace ==
    \E p \in Procs :
        \/ FileLoop(p)
        \/ GetFeatures(p)
        \/ Preprocess(p)
        \/ PpReturn(p)
        \/ LoadX(p)
        \/ LoadY(p)

SpecRace == InitRace /\ [][NextRace]_vars

\* SpecCycles: invocation 1 of test_topk() has loaded its arrays and runs its
\* train/evaluate cycles, for every num_iterations, over checkpoint paths
\* that are free or hold the file of an older run.
InitCycles ==
    /\ DropoutIdle
    /\ RegularizerIdle
    /\ AnnealerIdle
    /\ pc = [p \in Procs |-> IF p = 1 THEN "cycles" ELSE "off"]
    /\ patience = Idle
    /\ num_epochs = Idle
    /\ model_path = Idle
    /\ epoch = Idle
    /\ patience_counter = Idle
    /\ best_loss = [p \in Procs |-> Inf]
    /\ val_hist = [p \in Procs |-> <<>>]
    /\ loaded = [p \in Procs |-> NotLoaded]
    /\ \E old \in {Absent, Stale} : ckpt = [i \in Paths |-> old]
    /\ random_k = FALSE
    /\ masking_features = FALSE
    /\ k = 1
    /\ raw_idx = RawOrder
    /\ dirs = AllDirs
    /\ importance = Absent
    /\ base = BaseFiles(raw_idx, masking_features)
    /\ arr = CachedFiles(raw_idx, <<1>>, masking_features)
    /\ file_i = [p \in Procs |-> IF p = 1 THEN Len(Files) + 1 ELSE 0]
    /\ pp_i = Idle
    /\ features = [p \in Procs |-> None]
    /\ org_input = [p \in Procs |-> None]
    /\ org_outcomes = [p \in Procs |-> None]
    /\ org_dict = [p \in Procs |-> None]
    /\ X = [p \in Procs |-> IF p = 1 THEN arr[Files[1]] ELSE None]
    /\ Y = [p \in Procs |-> IF p = 1 THEN arr[Files[2]] ELSE None]
    /\ calls = [p \in Procs |-> <<>>]
    /\ num_iterations \in 0..MaxIterations
    /\ cycle_i = Idle
    /\ all_rocs = [p \in Procs |-> <<>>]
    /\ reported = [p \in Procs |-> None]

NextCycles ==
    \E p \in Procs :
        \/ Cycles(p)
        \/ ForCycle(p)
        \/ TrainBegin(p)
        \/ \E v \in CycleLosses : Epoch(p, v)
        \/ EpochRaises(p)
        \/ Reload(p)
        \/ \E auc \in AucValues : Predict(p, auc)
        \/ Report(p)

SpecCycles == InitCycles /\ [][NextCycles]_vars

\* SpecDropout: a ConcreteDropout layer is built, left in training mode or
\* put in evaluation mode, and called once.
InitDropout ==
    /\ pc = [p \in Procs |-> "off"]
    /\ TrainIdle
    /\ AnnealerIdle
    /\ HarnessIdle
    /\ DropoutIdle
    /\ RegularizerIdle
    /\ CyclesIdle

NextDropout ==
    \/ \E shape \in Shapes, init \in InitValues, temp \in Temperatures :
          ConcreteDropoutNew(shape, init, temp)
    \/ Eval
    \/ \E inp \in {x.values : x \in Alternating(input_shape, InputValues)},
          noise \in [1..Numel(input_shape) -> NoiseValues],
          zero \in [1..Numel(input_shape) -> BOOLEAN] :
             Forward(inp, noise, zero)

SpecDropout == InitDropout /\ [][NextDropout]_vars

\* SpecRegularizer: regularizers of every lam applied to one mask, under a
\* build of torch whose sum adds the elements in some fixed order.
InitRegularizer ==
    /\ pc = [p \in Procs |-> "off"]
    /\ TrainIdle
    /\ AnnealerIdle
    /\ HarnessIdle
    /\ DropoutIdle
    /\ CyclesIdle
    /\ reg_mask \in Masks
    /\ sum_order \in Perms(MaxShape)
    /\ lam = None
    /\ penalties = <<>>

NextRegularizer ==
    \/ \E l \in LamValues : ConcreteRegularizerNew(l)
    \/ RegularizerForward

SpecRegularizer == InitRegularizer /\ [][NextRegularizer]_vars

\* ------------------------------------------------------------------------
\* Properties of train()
\* ------------------------------------------------------------------------
MinOf(S) == CHOOSE x \in S : \A y \in S : x <= y

\* the best validation loss seen before epoch j of history h
BestBefore(h, j) == IF j = 1 THEN Inf ELSE MinOf({h[i] : i \in 1..(j - 1)})

\* epoch j did not bring a loss strictly below the best seen so far
NonImproving(h, j) == ~(h[j] < BestBefore(h, j))

\* epochs j-P+1 .. j are P consecutive non-improving epochs
StreakEndsAt(h, j, P) == j >= P /\ \A i \in (j - P + 1)..j : NonImproving(h, i)

\* the earliest epoch with the lowest validation loss of history h
ArgMinFirst(h) ==
    CHOOSE j \in 1..Len(h) :
        /\ \A i \in 1..Len(h) : h[j] <= h[i]
        /\ \A i \in 1..(j - 1) : h[i] > h[j]

\* the epoch loop has been left
LeftLoop(p) == pc[p] \in {"train_reload", "train_return", "error"}

\* The validation losses 0.5, 0.4, 0.45, 0.46 of the example: by rank, and on
\* a scale of three levels where 0.45 and 0.46 share one (the loop compares a
\* loss with the best so far only).
ExampleLosses == <<3, 0, 1, 2>>
ExampleLevels == <<2, 0, 1, 1>>
IsExample(h) == h = ExampleLosses \/ h = ExampleLevels
IsExamplePrefix(h) ==
    h = SubSeq(ExampleLosses, 1, 3) \/ h = SubSeq(ExampleLevels, 1, 3)

\* no unbounded run reaches the cut of the epoch loop
TrainWithinCap == \A p \in Procs : epoch[p] < EpochCap

\* C1: with patience P >= 1 and no epoch budget, train() leaves the epoch
\* loop right after the first epoch that ends P consecutive epochs whose
\* validation loss is not strictly below the best loss seen so far, and at
\* no earlier epoch; with patience 2 and losses 0.5, 0.4, 0.45, 0.46 that is
\* epoch 4.
TrainStopsAtFirstStreak ==
    \A p \in Procs :
        (num_epochs[p] = 0 /\ (pc[p] = "train_loop" \/ LeftLoop(p))) =>
            LET h == val_hist[p]
                P == patience[p]
            IN  /\ \A j \in 1..(Len(h) - 1) : ~StreakEndsAt(h, j, P)
                /\ pc[p] = "train_loop" =>
                       (Len(h) = 0 \/ ~StreakEndsAt(h, Len(h), P))
                /\ LeftLoop(p) => (Len(h) >= 1 /\ StreakEndsAt(h, Len(h), P))
                /\ (P = 2 /\ IsExamplePrefix(h)) => pc[p] = "train_loop"
                /\ (P = 2 /\ IsExample(h)) => LeftLoop(p)

\* C1 witness: the example run has just stopped after epoch 4
TrainStopsAtFirstStreakWitness ==
    /\ pc[1] = "train_reload"
    /\ num_epochs[1] = 0
    /\ patience[1] = 2
    /\ IsExample(val_hist[1])
    /\ epoch[1] = 4

\* C2: when train() returns, the model it reloads is the checkpoint written
\* at the earliest epoch with the lowest validation loss of the call; for the
\* example losses with patience 2 it is the checkpoint of epoch 2.
TrainReloadsBest ==
    \A p \in Procs :
        pc[p] = "train_return" =>
            /\ loaded[p] = Saved(p, ArgMinFirst(val_hist[p]))
            /\ (patience[p] = 2 /\ num_epochs[p] = 0 /\ IsExample(val_hist[p]))
                   => loaded[p] = Saved(p, 2)

\* C2 witness: the example run has returned with the epoch-2 checkpoint
TrainReloadsBestWitness ==
    /\ pc[1] = "train_return"
    /\ patience[1] = 2
    /\ IsExample(val_hist[1])
    /\ loaded[1] = Saved(1, 2)

\* C9: with no epoch budget and patience >= 1, every call of train()
\* reaches its return, whatever validation losses (from a finite set) the
\* epochs produce, and the epoch loop is left only with the counter equal to
\* patience.
TrainTerminates ==
    /\ \A p \in Procs :
           (pc[p] = "train_call" /\ num_epochs[p] = 0)
               ~> (pc[p] = "train_return" /\ patience_counter[p] = patience[p])
    /\ [](\A p \in Procs :
              (num_epochs[p] = 0 /\ LeftLoop(p))
                  => patience_counter[p] = patience[p])

\* C9 witness: an unbounded run has returned after several improvements
TrainTerminatesWitness ==
    /\ pc[1] = "train_return"
    /\ num_epochs[1] = 0
    /\ patience_counter[1] = patience[1]
    /\ val_hist[1] = <<2, 1, 1, 0, 0, 0>>

\* ------------------------------------------------------------------------
\* Properties of the Annealer
\* ------------------------------------------------------------------------
\* C3: call number i of step(), counted from 0, writes the rate
\* min(i, n) * (max_rate / n) into every parameter group: the rates ramp
\* from 0 to max_rate, stay at max_rate, never exceed it and never decrease;
\* with n = 3 and max_rate = 0.9 six calls write 0, 0.3, 0.6, 0.9, 0.9, 0.9.
AnnealerRampsToMaxRate ==
    (an_state = "built" /\ written # <<>>) =>
        LET i == Len(written) - 1
            rate == written[i + 1]
        IN  /\ \A g \in DOMAIN param_groups : param_groups[g] = rate
            /\ rate = FTimesNat(Smaller(i, ann_n), stepsize)
            /\ FLeq(rate, max_rate)
            /\ i >= ann_n => rate = max_rate
            /\ i >= 1 => FLeq(written[i], rate)
            /\ (ann_n = 3 /\ max_rate = FLit(9, 10) /\ i = 5) =>
                   written = <<FZero, FLit(3, 10), FLit(6, 10),
                               FLit(9, 10), FLit(9, 10), FLit(9, 10)>>

\* C8 as stated: before the first call of step() every parameter group of
\* the wrapped optimizer has the learning rate 0.
AnnealerZeroBeforeStep ==
    (an_state = "built" /\ written = <<>>) =>
        \A g \in DOMAIN param_groups : param_groups[g] = FZero

\* C8, amended: before the first call of step() only the Annealer's own
\* current_lr is 0; every parameter group keeps the learning rate the
\* optimizer created it with, and the first call of step() sets it to 0.
AnnealerKeepsLrUntilStep ==
    /\ (an_state = "built" /\ written = <<>>) =>
           (current_lr = FZero /\ param_groups = created_lr)
    /\ Len(written) = 1 =>
           (written[1] = FZero /\ \A g \in DOMAIN param_groups : param_groups[g] = FZero)

\* C8 witness: a built Annealer, not stepped, around a group created with
\* the rate 0.001
AnnealerKeepsLrUntilStepWitness ==
    /\ an_state = "built"
    /\ written = <<>>
    /\ \E g \in DOMAIN param_groups : param_groups[g] = FLit(1, 1000)

\* ------------------------------------------------------------------------
\* Properties of get_features() and preprocess_data()
\* ------------------------------------------------------------------------
\* the importance value the ranking gives feature f
ValOf(rows, f) == rows[CHOOSE j \in 1..Len(rows) : rows[j].features = f].vals

Distinct(seq) == \A a, b \in 1..Len(seq) : a # b => seq[a] # seq[b]

\* invocation p is back from get_features() with the list it returned
Returned(p) ==
    /\ pc[p] = "preprocess_data"
    /\ calls[p] # <<>>
    /\ calls[p][Len(calls[p])] = "get_features"

\* C7: on a ranking with at least k rows get_features returns exactly k
\* feature names of the ranking, all different, in ascending order of their
\* importance values, and no returned feature has a value strictly greater
\* than the value of a feature that was not returned.
GetFeaturesLowestK ==
    \A p \in Procs :
        (Returned(p) /\ importance # Absent /\ Len(importance.rows) >= k) =>
            LET rows == importance.rows
                got == features[p].items
                all == {rows[j].features : j \in 1..Len(rows)}
            IN  /\ Len(got) = k
                /\ Distinct(got)
                /\ Range(got) \subseteq all
                /\ \A a, b \in 1..k :
                      a < b => ValOf(rows, got[a]) <= ValOf(rows, got[b])
                /\ \A f \in Range(got), g \in all \ Range(got) :
                      ValOf(rows, f) <= ValOf(rows, g)

\* C7 witness: two of three features are returned, the lowest value first,
\* from a ranking that lists it last
GetFeaturesLowestKWitness ==
    /\ Returned(1)
    /\ k = 2
    /\ importance = CsvFile(<<[features |-> 1, vals |-> 1],
                              [features |-> 2, vals |-> 1],
                              [features |-> 3, vals |-> 0]>>)
    /\ features[1] = List(<<3, 1>>)

\* C6: preprocess_data, given k selected features (or choosing k at
\* random) out of a base dictionary of N >= k features, writes an input
\* array with exactly k columns (2k with masking features) and a dictionary
\* over exactly the selected features whose idx values are 0..k-1 in the
\* order of the list; column j of the array is the base column of the j-th
\* selected feature.
PreprocessSelectsColumns ==
    \A p \in Procs :
        (pc[p] = "pp_return" /\ k <= NumFeatures) =>
            LET feats == features[p].items
                cols == arr[Files[1]].cols
                idx == arr[Files[3]].idx
            IN  /\ Len(feats) = k
                /\ arr[Files[1]].by = p
                /\ arr[Files[3]].by = p
                /\ Len(cols) = IF masking_features THEN 2 * k ELSE k
                /\ DOMAIN idx = Range(feats)
                /\ {idx[f] : f \in DOMAIN idx} = 0..(k - 1)
                /\ \A j \in 1..k : idx[feats[j]] = j - 1
                /\ \A j \in 1..k : cols[j] = raw_idx[feats[j]]

\* C6 witness: features 3 and 1, which the base data keeps in columns 1 and
\* 2, were selected in this order with masking features
PreprocessSelectsColumnsWitness ==
    /\ pc[1] = "pp_return"
    /\ masking_features
    /\ features[1] = List(<<3, 1>>)
    /\ raw_idx[3] = 1
    /\ raw_idx[1] = 2
    /\ arr[Files[1]] = InputFile(<<1, 2, 1 + NumFeatures, 2 + NumFeatures>>, 1)
    /\ arr[Files[3]].idx[3] = 0
    /\ arr[Files[3]].idx[1] = 1

\* ------------------------------------------------------------------------
\* Properties of test_topk()
\* ------------------------------------------------------------------------
\* the positions of a run after the ranking was checked (and created)
PastCheck ==
    {"file_loop", "get_features", "preprocess_data", "pp_remove", "pp_mkdir",
     "pp_check_base", "org_preprocessor", "pp_load_base", "pp_save_outcomes",
     "pp_choose", "pp_save_input", "pp_save_dict", "pp_return", "load_X",
     "load_Y", "cycles"}

\* C4: in random-selection mode a run never checks for the importance
\* ranking, never calls get_mask and never calls get_features, whatever the
\* cache directory holds.
RandomNeverTouchesRanking ==
    random_k =>
        \A p \in Procs :
            Range(calls[p]) \cap
                {"exists_importance", "get_mask", "get_features"} = {}

\* C4 witness: a random-selection run materialised its dataset and reached
\* its cycles although no ranking exists
RandomNeverTouchesRankingWitness ==
    /\ random_k
    /\ pc[1] = "cycles"
    /\ importance = Absent
    /\ "preprocess_data" \in Range(calls[1])
    /\ X[1] # None

\* C5 as stated: every dropout-selection run reads the ranking, and reads it
\* before preprocess_data materialises a dataset.
DropoutAlwaysReadsRanking ==
    \A p \in Procs :
        (~random_k /\ pc[p] = "cycles") =>
            \E i \in 1..Len(calls[p]) :
                /\ calls[p][i] = "get_features"
                /\ \A j \in 1..i : calls[p][j] # "preprocess_data"

\* C5, amended: every dropout-selection run first checks that the ranking
\* exists and calls get_mask exactly when it is absent, so that the ranking
\* exists from then on; the ranking is read (get_features) only for a missing
\* cached file, and every call of preprocess_data directly follows such a
\* read.
DropoutReadsRankingBeforeMaterialising ==
    \A p \in Procs :
        ~random_k =>
            /\ pc[p] \in PastCheck =>
                  /\ calls[p] # <<>>
                  /\ calls[p][1] = "exists_importance"
                  /\ importance # Absent
            /\ pc[p] = "get_mask" => importance = Absent
            /\ \A i \in 1..Len(calls[p]) :
                  /\ calls[p][i] = "get_mask" =>
                        i = 2 /\ calls[p][1] = "exists_importance"
                  /\ calls[p][i] = "preprocess_data" =>
                        i > 1 /\ calls[p][i - 1] = "get_features"
                  /\ calls[p][i] = "get_features" =>
                        i > 1 /\ calls[p][i - 1] \in {"exists_importance",
                                                       "get_mask"}

\* C5 witness: a dropout-selection run found no ranking, had it created,
\* read it, materialised the dataset and reached its cycles
DropoutReadsRankingBeforeMaterialisingWitness ==
    /\ ~random_k
    /\ pc[1] = "cycles"
    /\ Len(calls[1]) >= 4
    /\ SubSeq(calls[1], 1, 4) =
           <<"exists_importance", "get_mask", "get_features", "preprocess_data">>

\* ------------------------------------------------------------------------
\* Properties of ConcreteDropout
\* ------------------------------------------------------------------------
\* C10: for every input, every mask parameter and every noise draw, also
\* with p or the noise at 0 or 1, every element m of the mask forward()
\* computes satisfies 0 < m < 1 strictly, and the masked output is
\* (1 - m) * input in every element.
ForwardMaskStrictlyInside ==
    cd_state = "called" =>
        \A i \in 1..Numel(input_shape) :
            /\ ~mask[i].zero
            /\ mask[i].val < One
            /\ returned[1][i] = Float32(One - mask[i].val) * input[i]

\* C11: constructing a ConcreteDropout with an initial-value tensor whose
\* shape differs from input_shape fails with the shape-mismatch assertion
\* during construction: no layer whose parameter_mask has another shape
\* than input_shape exists, and no forward pass runs on a failed
\* construction.
ShapeMismatchFailsFast ==
    /\ cd_state # "absent" =>
          (cd_state = "assertion_error" <=>
              (init_values.kind = "tensor" /\ init_values.shape # input_shape))
    /\ cd_state \in {"built", "called"} =>
          /\ parameter_mask.shape = input_shape
          /\ Len(parameter_mask.values) = Numel(input_shape)
    /\ cd_state = "assertion_error" =>
          /\ parameter_mask = None
          /\ mask = <<>>
          /\ returned = <<>>
    /\ cd_state = "called" => Len(mask) = Numel(input_shape)

\* C11 witness: a tensor of shape (1, 2) for the input shape (2, 1), which
\* has as many elements, was refused
ShapeMismatchFailsFastWitness ==
    /\ cd_state = "assertion_error"
    /\ init_values.kind = "tensor"
    /\ init_values.shape = <<1, 2>>
    /\ input_shape = <<2, 1>>

\* C18: with masking features, preprocess_data writes the companion column
\* of the feature with new index j at column j + k, k the number of selected
\* features, which is the number of features in the written dictionary; that
\* column is the base companion column (base idx + number of base features)
\* of the same feature.
CompanionColumnsFollowConvention ==
    \A p \in Procs :
        (pc[p] = "pp_return" /\ masking_features) =>
            LET cols == arr[Files[1]].cols
                idx == arr[Files[3]].idx
                n == Cardinality(DOMAIN idx)
            IN  /\ n = Len(features[p].items)
                /\ Len(cols) = 2 * n
                /\ \A f \in DOMAIN idx :
                      /\ cols[idx[f] + 1] = raw_idx[f]
                      /\ cols[idx[f] + n + 1] = raw_idx[f] + NumFeatures

\* C18 witness: features 2 and 3 of three were selected; their companions,
\* base columns 3 + idx, are columns 2 and 3 of the written array
CompanionColumnsFollowConventionWitness ==
    /\ pc[1] = "pp_return"
    /\ masking_features
    /\ features[1] = List(<<2, 3>>)
    /\ arr[Files[3]] = DictFile((2 :> 0) @@ (3 :> 1), 1)
    /\ arr[Files[1]] =
           InputFile(<<raw_idx[2], raw_idx[3],
                       raw_idx[2] + NumFeatures, raw_idx[3] + NumFeatures>>, 1)
    /\ raw_idx[2] # 1

\* ------------------------------------------------------------------------
\* Properties of the cache of test_topk()
\* ------------------------------------------------------------------------
\* how often invocation p has called the collaborator
Count(p, name) == Cardinality({i \in 1..Len(calls[p]) : calls[p][i] = name})

\* the file loop of line 184 is behind invocation p
PastFileLoop(p) == pc[p] \in {"load_X", "load_Y", "cycles"}

\* C14: in one run of test_topk, preprocess_data is called only for a
\* missing cached artifact and at most once; a run that gets past the file
\* loop has called it exactly when an artifact was missing, and then all
\* three artifacts exist, written by this call; a run that found all three
\* has called nothing and they are the files it found.
PreprocessOnceIffMissing ==
    \A p \in Procs :
        /\ Count(p, "preprocess_data") <= 1
        /\ pc[p] \in {"get_features", "preprocess_data"} =>
              /\ Count(p, "preprocess_data") = 0
              /\ arr[Files[file_i[p]]] = Absent
        /\ PastFileLoop(p) =>
              /\ \A f \in FileNames : arr[f] # Absent
              /\ IF Count(p, "preprocess_data") = 1
                 THEN \A f \in FileNames : arr[f].by = p
                 ELSE \A f \in FileNames : arr[f].by = 0

\* C14 witness: only the dictionary was missing; preprocess_data ran once
\* and rewrote all three artifacts
PreprocessOnceIffMissingWitness ==
    /\ pc[1] = "cycles"
    /\ file_i[1] = Len(Files) + 1
    /\ Count(1, "preprocess_data") = 1
    /\ \A f \in FileNames : arr[f] # Absent /\ arr[f].by = 1

\* the other invocation
Other(p) == CHOOSE q \in Procs : q # p

\* np.load of line 194 or 195 found no file
MissingAtLoad(p) == pc[p] = "error" /\ file_i[p] > Len(Files)

\* the arrays invocation p loaded were not written together
MixedLoad(p) == pc[p] = "cycles" /\ X[p].by # Y[p].by

\* invocation p loaded arrays that are not the ones it wrote itself
ForeignLoad(p) ==
    pc[p] = "cycles" /\ Count(p, "preprocess_data") = 1 /\ X[p].by # p

\* C15: an invocation that passed its existence checks can find an artifact
\* missing when it loads it (RaceMissingFile), and two concurrent invocations
\* can leave an input array and a dictionary of different materialisations;
\* whenever an invocation finds a file missing at its loads, or loads arrays
\* that were not written together or not by its own preprocess_data, the
\* other invocation has called preprocess_data.
TornLoadOnlyByConcurrentPreprocess ==
    \A p \in Procs :
        (MissingAtLoad(p) \/ MixedLoad(p) \/ ForeignLoad(p)) =>
            Count(Other(p), "preprocess_data") >= 1

\* C15 witness: invocation 1 materialised the dataset, passed every existence
\* check and then found the input array deleted by invocation 2, which is
\* inside preprocess_data
RaceMissingFile ==
    /\ MissingAtLoad(1)
    /\ Count(1, "preprocess_data") = 1
    /\ X[1] = None
    /\ arr[Files[1]] = Absent
    /\ pc[2] \in {"pp_remove", "pp_mkdir", "pp_check_base", "pp_load_base",
                   "pp_save_outcomes", "pp_choose", "pp_save_input"}

\* both invocations are past their loads, and the cache holds an input array
\* and a dictionary of different materialisations and different features
RaceMixedCache ==
    /\ \A p \in Procs : pc[p] = "cycles"
    /\ arr[Files[1]].by # arr[Files[3]].by
    /\ \E f \in DOMAIN arr[Files[3]].idx : arr[Files[1]].cols # <<raw_idx[f]>>

\* ------------------------------------------------------------------------
\* Properties of the train/evaluate cycles of test_topk()
\* ------------------------------------------------------------------------
\* invocation p is in its cycles, past line 197
InCycles(p) ==
    pc[p] \in {"for_cycle", "train_call", "train_loop", "train_reload",
               "train_return", "raised", "report", "done"}

\* invocation p is inside a call of train()
InTrain(p) ==
    pc[p] \in {"train_call", "train_loop", "train_reload", "train_return", "raised"}

\* C16: test_topk runs exactly num_iterations cycles of train then predict;
\* every cycle starts with the counter at 0 and the best loss at infinity
\* and writes the checkpoint path of its own index, so that the checkpoint
\* of every finished cycle is still the one that cycle reloaded; the mean
\* and the standard deviation are taken over num_iterations AUC values, one
\* per cycle.
CyclesAreFreshAndSeparate ==
    \A p \in Procs :
        InCycles(p) =>
            /\ cycle_i[p] <= num_iterations
            /\ Len(all_rocs[p]) = cycle_i[p]
            /\ Count(p, "predict") = cycle_i[p]
            /\ Count(p, "train") = cycle_i[p] + (IF InTrain(p) THEN 1 ELSE 0)
            /\ InTrain(p) =>
                  /\ cycle_i[p] < num_iterations
                  /\ model_path[p] = cycle_i[p]
            /\ (pc[p] = "train_loop" /\ epoch[p] = 0) =>
                  /\ patience_counter[p] = 0
                  /\ best_loss[p] = Inf
                  /\ val_hist[p] = <<>>
            /\ \A j \in 1..Len(all_rocs[p]) :
                  /\ all_rocs[p][j].model.kind = "saved"
                  /\ ckpt[j - 1] = all_rocs[p][j].model
            /\ pc[p] \in {"report", "done"} => cycle_i[p] = num_iterations
            /\ pc[p] = "done" =>
                  /\ reported[p].n = num_iterations
                  /\ reported[p].total = SumOfAucs(all_rocs[p])
                  /\ Count(p, "train") = num_iterations

\* C16 witness: two cycles with different AUC values and different best
\* epochs have been reported
CyclesAreFreshAndSeparateWitness ==
    /\ pc[1] = "done"
    /\ num_iterations = 2
    /\ ckpt[0] = Saved(1, 1)
    /\ ckpt[1] = Saved(1, 2)
    /\ all_rocs[1][1].auc = 50
    /\ all_rocs[1][2].auc = 90
    /\ reported[1] = [n |-> 2, total |-> 140, deviation |-> 1600]

\* ------------------------------------------------------------------------
\* Properties of the early-stopping state of train()
\* ------------------------------------------------------------------------
\* the last epoch of history h whose loss was strictly below the best loss
\* before it; 0 when there is none
LastImproving(h) ==
    LET S == {j \in 1..Len(h) : ~NonImproving(h, j)}
    IN  IF S = {} THEN 0 ELSE CHOOSE j \in S : \A i \in S : i <= j

\* C13: in train(), after every epoch the patience counter is the number of
\* epochs processed since the last epoch whose validation loss was strictly
\* below the best loss so far (0 right after such an epoch, one more after
\* every other epoch), and it lies in 0..patience.
PatienceCounterCountsSinceBest ==
    \A p \in Procs :
        pc[p] \in {"train_loop", "train_reload", "train_return", "error"} =>
            /\ patience_counter[p] = Len(val_hist[p]) - LastImproving(val_hist[p])
            /\ patience_counter[p] \in 0..patience[p]

\* two non-improving epochs separated by an improving one: the counter is 1
PatienceCounterCountsSinceBestWitness ==
    /\ val_hist[1] = <<2, 2, 1, 1>>
    /\ patience[1] = 2
    /\ patience_counter[1] = 1
    /\ pc[1] = "train_loop"

\* C17: in every call of train() the first epoch that reaches line 71
\* writes a checkpoint to model_path, so that from epoch 1 on model_path
\* holds a checkpoint of this call, the reload of line 83 finds it, and the
\* model returned is never a file an earlier run left at model_path; a
\* first epoch with NaN predictions raises and returns nothing.
TrainReturnsOwnCheckpoint ==
    \A p \in Procs :
        /\ (pc[p] \in {"train_loop", "train_reload", "train_return"}
                /\ epoch[p] >= 1) =>
              /\ ckpt[model_path[p]].kind = "saved"
              /\ ckpt[model_path[p]].by = p
              /\ ckpt[model_path[p]].epoch \in 1..epoch[p]
              /\ val_hist[p][1] \in LossVals
        /\ pc[p] \in {"train_reload", "train_return"} => epoch[p] >= 1
        /\ pc[p] = "train_return" =>
              /\ loaded[p].kind = "saved"
              /\ loaded[p].by = p
        /\ pc[p] # "error"
        /\ pc[p] = "raised" => loaded[p] = NotLoaded

\* C17 witness: over a file of an earlier run or none, a call whose epochs
\* all gave the largest loss returned the checkpoint of its epoch 1
TrainReturnsOwnCheckpointWitness ==
    /\ pc[1] = "train_return"
    /\ val_hist[1] = <<MaxLoss, MaxLoss, MaxLoss>>
    /\ loaded[1] = Saved(1, 1)
    /\ ckpt[model_path[1]] = Saved(1, 1)

\* ------------------------------------------------------------------------
\* Properties of ConcreteRegularizer
\* ------------------------------------------------------------------------
\* all elements of reg_mask, added in float32 in the build's order
Total == SumIn(sum_order, 1..Numel(reg_mask.shape), reg_mask.values)

\* C12: forward() returns one scalar, lam times the sum of the mask over all
\* of its dimensions, the batch dimension included; so for a fixed mask the
\* penalty of 2 * lam is exactly twice the penalty of lam, and the penalty
\* of -lam is its negation.
RegularizerProportionalToLam ==
    \A a \in DOMAIN penalties :
        /\ penalties[a].shape = <<>>
        /\ penalties[a].values[1] = Times(a, Total)
        /\ \A b \in DOMAIN penalties :
              /\ b = 2 * a =>
                    /\ penalties[b].values[1].m = penalties[a].values[1].m
                    /\ penalties[a].values[1].m # 0 =>
                          penalties[b].values[1].e = penalties[a].values[1].e + 1
              /\ b = -a =>
                    /\ penalties[b].values[1].m = -penalties[a].values[1].m
                    /\ penalties[b].values[1].e = penalties[a].values[1].e

RegularizerProportionalToLamWitness ==
    /\ DOMAIN penalties = {-10, 10, 20}
    /\ reg_mask.shape = <<2, 1>>
    /\ reg_mask.values[1] # reg_mask.values[2]
    /\ penalties[10].values[1].m > 0
    /\ penalties[-10].values[1].m < 0
====
